---- MODULE Spec2Model ----
(***************************************************************************)
(* Model of the macOS installer test harness:                              *)
(*   - MacOSAutomation (tests/helpers/macos.ts): tracked mounts, spawned   *)
(*     processes, temp directories, cleanup();                             *)
(*   - the scenario runner (beforeEach / test body / afterEach);           *)
(*   - the interactive drivers of the scenarios (stdout 'data' handlers    *)
(*     that answer the installer's prompts);                               *)
(*   - one launch+converse run: the driver's promise, settled by 'close',  *)
(*     'error' or the timeout timer, and the hang test's verdict;          *)
(*   - launchApp's poll for the launched application;                      *)
(*   - the security gate: quarantine attribute and assessment.             *)
(***************************************************************************)
EXTENDS Integers, Sequences, FiniteSets, TLC

(***************************************************************************)
(* Bounds                                                                  *)
(***************************************************************************)
\* resources one scenario acquires (mounts, processes, temp directories)
MaxResources == 3

\* the disk images a scenario may mount
Images == {"dmgA", "dmgB"}

VARIABLES
    pc,                \* runner position: beforeEach, body, afterEach, done
    bodyFailed,        \* a step of beforeEach/body threw
    mountedDMGs,       \* MacOSAutomation.mountedDMGs
    spawnedProcesses,  \* MacOSAutomation.spawnedProcesses
    tempDirectories,   \* MacOSAutomation.tempDirectories
    activeMounts,      \* OS: mount points currently attached
    alive,             \* OS: child processes currently running
    killed,            \* ChildProcess.killed flags that are true
    launched,          \* processes spawned by launchApp
    driven,            \* processes spawned by a scenario's driver
    awaiting,          \* the driver child whose promise the body awaits, or 0
    existingDirs,      \* OS: temp directories present on disk
    createdDirs,       \* temp directories createTempDirectory made
    obtained,          \* mount points returned by a successful mountDMG
    acquired,          \* resources in acquisition order
    released,          \* release attempts of cleanup(), in order
    cleanupCalls,      \* number of cleanup() invocations
    cleanupRaised,     \* cleanup() ended with an exception
    lastCall,          \* the body's latest mountDMG / unmountDMG call
    trackedAtCleanup,  \* mountedDMGs as cleanup() found it
    driver,            \* which scenario's stdout handler is installed
    pending,           \* installer output not yet delivered
    stdout,            \* the handler's accumulated stdout string
    stdin,             \* writes made to the installer's stdin, in order
    emailPromptReceived, \* flag of the invalid-email handler
    invalidEmailSent,  \* flag of the invalid-email handler
    runDriver,         \* launch+converse run: which scenario's promise
    now,               \* launch+converse run: ms since the spawn
    child,             \* the spawned child: running, exited, failed
    ignoresTerm,       \* the child survives SIGTERM
    exitStatus,        \* how the child ended: [signalled, code]
    exitedAt,          \* when the child ended, or -1
    procKilled,        \* ChildProcess.killed
    termSent,          \* process.kill('SIGTERM') was called
    closeSeen,         \* the 'close' handler has run
    timerFired,        \* the setTimeout callback has run
    result,            \* the promise: pending or its settled value
    promptReceived,    \* emailPromptReceived of the hang test
    promptAt,          \* when the email prompt was matched, or -1
    lastOutputAt,      \* when the latest stdout chunk arrived, or -1
    launchTimeout,     \* launchApp: the timeout argument
    launchClock,       \* launchApp: ms since startTime
    launcher,          \* the spawned `open -W appPath`: running, exited, failed
    launcherSignalled, \* launchApp has sent a signal to the launcher
    appRunning,        \* the application's own process is running
    appEverRan,        \* the application's process has appeared
    checkInterval,     \* the setInterval poll is armed
    launchResult,      \* launchApp's promise: pending or settled
    marker,            \* paths carrying com.apple.quarantine
    trusted,           \* paths whose code the assessment accepts as such
    gatePolicy,        \* how spctl weighs the marker
    trip,              \* a set-then-clear round trip being observed
    lastCheck,         \* the latest checkGatekeeperStatus call
    scKind,            \* scenario under way: gateCli, gateGk, network, conflict
    scPc,              \* the scenario body's position
    scFailed,          \* the scenario body threw
    scLog,             \* the gate calls the body made, in order
    scBlocked,         \* blocked of the body's latest checkGatekeeperStatus
    scDialog,          \* the body's handleGatekeeperDialog call
    scRaised,          \* a best-effort gate operation threw to the body
    scRun,             \* the installer run of the network / conflict body
    scMock,            \* /Applications/ActivityWatch.app holds the mock bundle
    ci,                \* process.env.CI is set
    workers,           \* worker processes of the test runner
    phase,             \* runner: where each scenario is
    silent,            \* silent-failure body: what followed the launch attempt
    body,              \* gate-blocking body running beside its unawaited launch
    killCall,          \* the latest killProcess call
    scTemp             \* the temp directory a scenario body created

ledgerVars == <<pc, bodyFailed, mountedDMGs, spawnedProcesses, tempDirectories,
                activeMounts, alive, killed, launched, driven, awaiting,
                existingDirs, createdDirs, obtained, acquired, released, cleanupCalls,
                cleanupRaised, lastCall, trackedAtCleanup>>

driverVars == <<driver, pending, stdout, stdin, emailPromptReceived, invalidEmailSent>>

runVars == <<runDriver, now, child, ignoresTerm, exitStatus, exitedAt, procKilled,
             termSent, closeSeen, timerFired, result, promptReceived, promptAt,
             lastOutputAt>>

launchVars == <<launchTimeout, launchClock, launcher, launcherSignalled,
                appRunning, appEverRan, checkInterval, launchResult>>

gateVars == <<marker, trusted, gatePolicy, trip, lastCheck>>

scVars == <<scKind, scPc, scFailed, scLog, scBlocked, scDialog, scRaised, scRun, scMock>>

runnerVars == <<ci, workers, phase>>

bodyVars == <<silent, body, killCall, scTemp>>

extVars == <<runVars, launchVars, gateVars, scVars, runnerVars, bodyVars>>

vars == <<ledgerVars, driverVars, extVars>>

Range(s) == {s[i] : i \in 1..Len(s)}

(***************************************************************************)
(* Array helpers (Array.prototype.indexOf / splice)                        *)
(***************************************************************************)
IndexOf(list, x) ==
    IF \E i \in 1..Len(list) : list[i] = x
    THEN CHOOSE i \in 1..Len(list) : list[i] = x /\ \A j \in 1..(i-1) : list[j] # x
    ELSE 0

Splice(list, i) ==
    IF i = 0 THEN list
    ELSE [k \in 1..(Len(list)-1) |-> IF k < i THEN list[k] ELSE list[k+1]]

\* hdiutil attach reports the volume of the image: one mount point per image.
MountPointOf(img) == img

(***************************************************************************)
(* unmountDMG(mountPoint): clean detach; on failure a forced detach; the   *)
(* forced detach's failure is rethrown.  Only the clean path removes the   *)
(* mount point from mountedDMGs.                                           *)
(* cleanFail / forceFail: mount points on which the OS refuses the clean / *)
(* the forced detach; a mount point that is not attached cannot be         *)
(* detached.                                                               *)
(***************************************************************************)
\* detaches: the hdiutil detach invocations made, in order.
unmountDMG(mp, list, active, cleanFail, forceFail) ==
    IF mp \in active /\ mp \notin cleanFail
    THEN [list |-> Splice(list, IndexOf(list, mp)),
          active |-> active \ {mp}, threw |-> FALSE,
          detaches |-> <<"detach">>]
    ELSE IF mp \in active /\ mp \notin forceFail
    THEN [list |-> list, active |-> active \ {mp}, threw |-> FALSE,
          detaches |-> <<"detach", "detach -force">>]
    ELSE [list |-> list, active |-> active, threw |-> TRUE,
          detaches |-> <<"detach", "detach -force">>]

(***************************************************************************)
(* cleanup(): the automation's state as one record                         *)
(*   procs/mounts/dirs : the three tracked lists                           *)
(*   alive/killed/active/exist : what the releases act on                  *)
(*   log : release attempts in the order they are made                     *)
(*   raised : an exception is propagating out of cleanup()                 *)
(***************************************************************************)
Release(kind, id) == [kind |-> kind, id |-> id]

\* for (const process of this.spawnedProcesses) if (!process.killed)
\* process.kill('SIGTERM');  this.spawnedProcesses = [];
\* kill() delivers the signal only to a running child and then sets .killed;
\* a child in ignoreTerm survives the signal.
KillProcesses(st, ignoreTerm) ==
    LET toSignal == SelectSeq(st.procs, LAMBDA p : p \notin st.killed)
        delivered == Range(toSignal) \cap st.alive
    IN [st EXCEPT !.killed = @ \cup delivered,
                  !.alive = @ \ (delivered \ ignoreTerm),
                  !.log = @ \o [i \in 1..Len(toSignal) |-> Release("process", toSignal[i])],
                  !.procs = << >>]

\* the mount loop without its try/catch: the forced detach's error escapes
TryUnmount_Rethrow(r) == r

\* try { await this.unmountDMG(mountPoint) } catch (error) { console.warn }
TryUnmount(r) == [r EXCEPT !.threw = FALSE]

\* for (const mountPoint of this.mountedDMGs): the iterator reads the live
\* array by index, and unmountDMG may splice that array as the loop runs.
RECURSIVE UnmountLoop(_, _, _, _)
UnmountLoop(i, st, cleanFail, forceFail) ==
    IF st.raised \/ i > Len(st.mounts) THEN st
    ELSE LET mp == st.mounts[i]
             r == TryUnmount(unmountDMG(mp, st.mounts, st.active, cleanFail, forceFail))
         IN UnmountLoop(i + 1,
                        [st EXCEPT !.mounts = r.list,
                                   !.active = r.active,
                                   !.raised = r.threw,
                                   !.log = Append(@, Release("mount", mp))],
                        cleanFail, forceFail)

\* the mount loop without this.mountedDMGs = [], relying on unmountDMG's
\* own removal of the entry
UnmountAll_NoClear(st, cleanFail, forceFail) ==
    UnmountLoop(1, st, cleanFail, forceFail)

\* the mount loop followed by this.mountedDMGs = []
UnmountAll(st, cleanFail, forceFail) ==
    LET s == UnmountLoop(1, st, cleanFail, forceFail)
    IN IF s.raised THEN s ELSE [s EXCEPT !.mounts = << >>]

\* execSync(`rm -rf "${tempDir}"`): fails on a directory in rmFail and
\* leaves it in place.
removeDir(d, exist, rmFail) ==
    IF d \in rmFail THEN [exist |-> exist, threw |-> TRUE]
    ELSE [exist |-> exist \ {d}, threw |-> FALSE]

\* try { execSync(`rm -rf ...`) } catch (error) { console.warn }
TryRemove(r) == [r EXCEPT !.threw = FALSE]

RECURSIVE RemoveLoop(_, _, _)
RemoveLoop(i, st, rmFail) ==
    IF st.raised \/ i > Len(st.dirs) THEN st
    ELSE LET d == st.dirs[i]
             r == TryRemove(removeDir(d, st.exist, rmFail))
         IN RemoveLoop(i + 1,
                       [st EXCEPT !.exist = r.exist,
                                  !.raised = r.threw,
                                  !.log = Append(@, Release("dir", d))],
                       rmFail)

\* the temp-directory loop followed by this.tempDirectories = []
RemoveTempDirs(st, rmFail) ==
    IF st.raised THEN st
    ELSE LET s == RemoveLoop(1, st, rmFail)
         IN IF s.raised THEN s ELSE [s EXCEPT !.dirs = << >>]

\* cleanup() with the temp directories removed first
cleanup_DirsFirst(st, ignoreTerm, cleanFail, forceFail, rmFail) ==
    UnmountAll(KillProcesses(RemoveTempDirs(st, rmFail), ignoreTerm), cleanFail, forceFail)

\* cleanup(): processes, then mounts, then temp directories
cleanup(st, ignoreTerm, cleanFail, forceFail, rmFail) ==
    RemoveTempDirs(UnmountAll(KillProcesses(st, ignoreTerm), cleanFail, forceFail), rmFail)

(***************************************************************************)
(* The scenario runner and the scenario body's calls on MacOSAutomation    *)
(***************************************************************************)
\* a runner that ends the scenario at once when the body throws
AfterBody_SkipOnFailure(failed) == IF failed THEN "done" ELSE "afterEach"

\* Where the runner goes when beforeEach or the test body has ended,
\* normally or by a throw: the afterEach hook runs in both cases.
AfterBody(failed) == "afterEach"

\* no mountDMG / unmountDMG call made by the body yet
NoCall == [op |-> "none", pathFound |-> TRUE, attach |-> FALSE,
           detaches |-> << >>, threw |-> FALSE, before |-> << >>]

LedgerInit ==
    /\ pc = "beforeEach"
    /\ bodyFailed = FALSE
    /\ mountedDMGs = << >>
    /\ spawnedProcesses = << >>
    /\ tempDirectories = << >>
    /\ activeMounts = {}
    /\ alive = {}
    /\ killed = {}
    /\ launched = {}
    /\ driven = {}
    /\ awaiting = 0
    /\ existingDirs = {}
    /\ createdDirs = {}
    /\ obtained = {}
    /\ acquired = << >>
    /\ released = << >>
    /\ cleanupCalls = 0
    /\ cleanupRaised = FALSE
    /\ lastCall = NoCall
    /\ trackedAtCleanup = << >>

DriverIdle ==
    /\ driver = "none"
    /\ pending = << >>
    /\ stdout = << >>
    /\ stdin = << >>
    /\ emailPromptReceived = FALSE
    /\ invalidEmailSent = FALSE

\* a promise not yet settled.  exitCode: << >> when the value carries none.
Pending == [kind |-> "pending", exitCode |-> << >>, hung |-> FALSE, at |-> 0 - 1]

\* a child that has not ended
NoExit == [signalled |-> FALSE, code |-> << >>]

\* no launch+converse run in progress
RunIdle ==
    /\ runDriver = "none"
    /\ now = 0
    /\ child = "none"
    /\ ignoresTerm = FALSE
    /\ exitStatus = NoExit
    /\ exitedAt = 0 - 1
    /\ procKilled = FALSE
    /\ termSent = FALSE
    /\ closeSeen = FALSE
    /\ timerFired = FALSE
    /\ result = Pending
    /\ promptReceived = FALSE
    /\ promptAt = 0 - 1
    /\ lastOutputAt = 0 - 1

\* no launchApp call in progress
LaunchIdle ==
    /\ launchTimeout = 0
    /\ launchClock = 0
    /\ launcher = "none"
    /\ launcherSignalled = FALSE
    /\ appRunning = FALSE
    /\ appEverRan = FALSE
    /\ checkInterval = FALSE
    /\ launchResult = [kind |-> "pending", at |-> 0 - 1]

\* no round trip observed
NoTrip == [path |-> "none", stage |-> 0, hadMarker |-> FALSE,
           setFailed |-> FALSE, clearFailed |-> FALSE,
           before |-> FALSE, after |-> FALSE]

\* the security gate untouched
\* no checkGatekeeperStatus call made
NoCheck == [called |-> FALSE, accepted |-> FALSE, rejectedWord |-> FALSE,
            blocked |-> FALSE, reason |-> "none", raised |-> FALSE]

GateIdle ==
    /\ marker = {}
    /\ trusted = {}
    /\ gatePolicy = "none"
    /\ trip = NoTrip
    /\ lastCheck = NoCheck

\* no handleGatekeeperDialog call made
NoDialog == [called |-> FALSE, agentFrom |-> 0, buttonFrom |-> 0,
             clicked |-> FALSE, warned |-> FALSE]

\* no installer run made by the body
NoRun == [done |-> FALSE, code |-> << >>, stdout |-> << >>, stderr |-> << >>,
          timedOut |-> FALSE]

\* no scenario body under way
ScenarioIdle ==
    /\ scKind = "none"
    /\ scPc = "none"
    /\ scFailed = FALSE
    /\ scLog = << >>
    /\ scBlocked = "none"
    /\ scDialog = NoDialog
    /\ scRaised = FALSE
    /\ scRun = NoRun
    /\ scMock = FALSE

\* the test runner not started
RunnerIdle ==
    /\ ci = FALSE
    /\ workers = 0
    /\ phase = << >>

NoSilent == [done |-> FALSE, visible |-> FALSE, elapsed |-> 0, caught |-> FALSE]

NoBody == [kind |-> "none", pc |-> "none", until |-> 0, nextPoll |-> 0,
           unhandled |-> FALSE]

NoKill == [called |-> FALSE, delivered |-> FALSE, stillAlive |-> FALSE,
           signals |-> << >>, warned |-> FALSE, raised |-> FALSE]

NoTemp == [name |-> << >>, exists |-> FALSE, tracked |-> FALSE]

\* no launch follow-up, no killProcess call, no temp directory
BodyIdle ==
    /\ silent = NoSilent
    /\ body = NoBody
    /\ killCall = NoKill
    /\ scTemp = NoTemp

OtherIdle == ScenarioIdle /\ RunnerIdle /\ BodyIdle

Init == LedgerInit /\ DriverIdle /\ RunIdle /\ LaunchIdle /\ GateIdle /\ OtherIdle

\* The body throws: the rest of the body is skipped.
Abort ==
    /\ pc' = AfterBody(TRUE)
    /\ bodyFailed' = TRUE

\* test.beforeEach: macOS = new MacOSAutomation(); throws when DMG_PATH is
\* unset or names no file.
BeforeEach ==
    /\ pc = "beforeEach"
    /\ \E dmgFound \in BOOLEAN :
          IF dmgFound THEN pc' = "body" /\ bodyFailed' = FALSE
          ELSE Abort
    /\ UNCHANGED <<mountedDMGs, spawnedProcesses, tempDirectories, activeMounts,
                   alive, killed, launched, driven, awaiting, existingDirs,
                   createdDirs, obtained, acquired, released, cleanupCalls,
                   cleanupRaised>>
    /\ UNCHANGED lastCall
    /\ UNCHANGED trackedAtCleanup
    /\ UNCHANGED <<driverVars, extVars>>

\* a mountDMG that records the mount point before the report is parsed
mountDMG_PushFirst(img, list, active, outcome) ==
    CASE outcome = "missing" ->
            [list |-> list, active |-> active, threw |-> TRUE, attach |-> FALSE]
      [] outcome = "attachFails" ->
            [list |-> list, active |-> active, threw |-> TRUE, attach |-> TRUE]
      [] OTHER ->
            [list |-> Append(list, MountPointOf(img)),
             active |-> active \cup {MountPointOf(img)},
             threw |-> (outcome = "noMountPoint"), attach |-> TRUE]

\* mountDMG(dmgPath).  outcome: "missing" (fs.access fails), "attachFails"
\* (hdiutil attach exits nonzero), "noMountPoint" (attached, but the report
\* holds no mount point: parseDMGMountOutput throws), "ok".
\* attach: hdiutil attach was invoked.
mountDMG(img, list, active, outcome) ==
    CASE outcome = "missing" ->
            [list |-> list, active |-> active, threw |-> TRUE, attach |-> FALSE]
      [] outcome = "attachFails" ->
            [list |-> list, active |-> active, threw |-> TRUE, attach |-> TRUE]
      [] outcome = "noMountPoint" ->
            [list |-> list, active |-> active \cup {MountPointOf(img)},
             threw |-> TRUE, attach |-> TRUE]
      [] OTHER ->
            [list |-> Append(list, MountPointOf(img)),
             active |-> active \cup {MountPointOf(img)},
             threw |-> FALSE, attach |-> TRUE]

\* resources acquired so far
Acquisitions == Len(acquired) + Cardinality(driven)

MountOutcomes == {"missing", "attachFails", "noMountPoint", "ok"}

MountDMG ==
    /\ pc = "body" /\ awaiting = 0
    /\ Acquisitions < MaxResources
    /\ \E img \in Images, outcome \in MountOutcomes :
          LET r == mountDMG(img, mountedDMGs, activeMounts, outcome)
          IN /\ mountedDMGs' = r.list
             /\ activeMounts' = r.active
             /\ lastCall' = [op |-> "mountDMG", pathFound |-> outcome # "missing",
                             attach |-> r.attach, detaches |-> << >>,
                             threw |-> r.threw, before |-> mountedDMGs]
             /\ IF r.threw
                THEN Abort /\ UNCHANGED <<obtained, acquired>>
                ELSE /\ UNCHANGED <<pc, bodyFailed>>
                     /\ obtained' = obtained \cup {MountPointOf(img)}
                     /\ acquired' = Append(acquired, Release("mount", MountPointOf(img)))
    /\ UNCHANGED <<spawnedProcesses, tempDirectories, alive, killed, launched,
                   driven, awaiting, existingDirs, createdDirs, released,
                   cleanupCalls, cleanupRaised>>
    /\ UNCHANGED trackedAtCleanup
    /\ UNCHANGED <<driverVars, extVars>>

\* The body's own await macOS.unmountDMG(mountInfo.mountPoint)
UnmountDMG ==
    /\ pc = "body" /\ awaiting = 0
    /\ \E mp \in obtained : \E cleanFail \in SUBSET {mp}, forceFail \in SUBSET {mp} :
          LET r == unmountDMG(mp, mountedDMGs, activeMounts, cleanFail, forceFail)
          IN /\ mountedDMGs' = r.list
             /\ activeMounts' = r.active
             /\ lastCall' = [op |-> "unmountDMG", pathFound |-> TRUE,
                             attach |-> FALSE, detaches |-> r.detaches,
                             threw |-> r.threw, before |-> mountedDMGs]
             /\ IF r.threw THEN Abort ELSE UNCHANGED <<pc, bodyFailed>>
    /\ UNCHANGED <<spawnedProcesses, tempDirectories, alive, killed, launched,
                   driven, awaiting, existingDirs, createdDirs, obtained, acquired,
                   released, cleanupCalls, cleanupRaised>>
    /\ UNCHANGED trackedAtCleanup
    /\ UNCHANGED <<driverVars, extVars>>

NextProc == Cardinality(launched \cup driven) + 1

\* launchApp: spawn('open', ['-W', appPath]) and
\* this.spawnedProcesses.push(process), before the promise is created.
\* started = FALSE: the child could not be started ('error' event).
LaunchApp ==
    /\ pc = "body" /\ awaiting = 0
    /\ Acquisitions < MaxResources
    /\ \E started \in BOOLEAN :
          alive' = IF started THEN alive \cup {NextProc} ELSE alive
    /\ spawnedProcesses' = Append(spawnedProcesses, NextProc)
    /\ launched' = launched \cup {NextProc}
    /\ acquired' = Append(acquired, Release("process", NextProc))
    /\ UNCHANGED <<pc, bodyFailed, mountedDMGs, tempDirectories, activeMounts,
                   killed, driven, awaiting, existingDirs, createdDirs, obtained,
                   released, cleanupCalls, cleanupRaised>>
    /\ UNCHANGED lastCall
    /\ UNCHANGED trackedAtCleanup
    /\ UNCHANGED <<driverVars, extVars>>

\* A scenario's driver: spawn(executablePath, ['--terminal'], ...) inside
\* the promise the body then awaits.  The child is held in a local
\* variable of the promise executor only.
DriverSpawn ==
    /\ pc = "body" /\ awaiting = 0
    /\ Acquisitions < MaxResources
    /\ \E started \in BOOLEAN :
          /\ alive' = IF started THEN alive \cup {NextProc} ELSE alive
          /\ awaiting' = IF started THEN NextProc ELSE 0
    /\ driven' = driven \cup {NextProc}
    /\ UNCHANGED <<pc, bodyFailed, mountedDMGs, spawnedProcesses, tempDirectories,
                   activeMounts, killed, launched, existingDirs, createdDirs,
                   obtained, acquired, released, cleanupCalls, cleanupRaised>>
    /\ UNCHANGED lastCall
    /\ UNCHANGED trackedAtCleanup
    /\ UNCHANGED <<driverVars, extVars>>

\* process.on('close', ...): the driven child has exited; the promise settles.
DriverClose ==
    /\ pc = "body" /\ awaiting # 0
    /\ alive' = alive \ {awaiting}
    /\ awaiting' = 0
    /\ UNCHANGED <<pc, bodyFailed, mountedDMGs, spawnedProcesses, tempDirectories,
                   activeMounts, killed, launched, driven, existingDirs,
                   createdDirs, obtained, acquired, released, cleanupCalls,
                   cleanupRaised>>
    /\ UNCHANGED lastCall
    /\ UNCHANGED trackedAtCleanup
    /\ UNCHANGED <<driverVars, extVars>>

\* The driver's setTimeout: process.kill('SIGTERM') and the promise settles
\* at once, whether or not the child dies of the signal.
DriverTimeout ==
    /\ pc = "body" /\ awaiting # 0
    /\ killed' = killed \cup {awaiting}
    /\ \E ignores \in BOOLEAN :
          alive' = IF ignores THEN alive ELSE alive \ {awaiting}
    /\ awaiting' = 0
    /\ UNCHANGED <<pc, bodyFailed, mountedDMGs, spawnedProcesses, tempDirectories,
                   activeMounts, launched, driven, existingDirs, createdDirs,
                   obtained, acquired, released, cleanupCalls, cleanupRaised>>
    /\ UNCHANGED lastCall
    /\ UNCHANGED trackedAtCleanup
    /\ UNCHANGED <<driverVars, extVars>>

\* The launcher started by launchApp exits on its own.
ProcExit ==
    /\ pc = "body"
    /\ \E p \in launched \cap alive : alive' = alive \ {p}
    /\ UNCHANGED <<pc, bodyFailed, mountedDMGs, spawnedProcesses, tempDirectories,
                   activeMounts, killed, launched, driven, awaiting, existingDirs,
                   createdDirs, obtained, acquired, released, cleanupCalls,
                   cleanupRaised>>
    /\ UNCHANGED lastCall
    /\ UNCHANGED trackedAtCleanup
    /\ UNCHANGED <<driverVars, extVars>>

NextDir == Cardinality(createdDirs) + 1

\* createTempDirectory: fs.mkdir, then this.tempDirectories.push(tempDir).
CreateTempDirectory ==
    /\ pc = "body" /\ awaiting = 0
    /\ Acquisitions < MaxResources
    /\ \E made \in BOOLEAN :
          IF made
          THEN /\ existingDirs' = existingDirs \cup {NextDir}
               /\ createdDirs' = createdDirs \cup {NextDir}
               /\ tempDirectories' = Append(tempDirectories, NextDir)
               /\ acquired' = Append(acquired, Release("dir", NextDir))
               /\ UNCHANGED <<pc, bodyFailed>>
          ELSE /\ Abort
               /\ UNCHANGED <<existingDirs, createdDirs, tempDirectories, acquired>>
    /\ UNCHANGED <<mountedDMGs, spawnedProcesses, activeMounts, alive, killed,
                   launched, driven, awaiting, obtained, released, cleanupCalls,
                   cleanupRaised>>
    /\ UNCHANGED lastCall
    /\ UNCHANGED trackedAtCleanup
    /\ UNCHANGED <<driverVars, extVars>>

\* Any other step of the body throws (a failed expect, a rejected launch,
\* the runner's timeout).
BodyFail ==
    /\ pc = "body" /\ awaiting = 0
    /\ Abort
    /\ UNCHANGED <<mountedDMGs, spawnedProcesses, tempDirectories, activeMounts,
                   alive, killed, launched, driven, awaiting, existingDirs,
                   createdDirs, obtained, acquired, released, cleanupCalls,
                   cleanupRaised>>
    /\ UNCHANGED lastCall
    /\ UNCHANGED trackedAtCleanup
    /\ UNCHANGED <<driverVars, extVars>>

\* The body runs to its end.
BodyEnd ==
    /\ pc = "body" /\ awaiting = 0
    /\ pc' = AfterBody(FALSE)
    /\ UNCHANGED <<bodyFailed, mountedDMGs, spawnedProcesses, tempDirectories,
                   activeMounts, alive, killed, launched, driven, awaiting,
                   existingDirs, createdDirs, obtained, acquired, released,
                   cleanupCalls, cleanupRaised>>
    /\ UNCHANGED lastCall
    /\ UNCHANGED trackedAtCleanup
    /\ UNCHANGED <<driverVars, extVars>>

\* test.afterEach(async () => { await macOS.cleanup(); })
AfterEach ==
    /\ pc = "afterEach"
    /\ \E ignoreTerm \in SUBSET (Range(spawnedProcesses) \cap alive),
          cleanFail \in SUBSET (Range(mountedDMGs) \cap activeMounts),
          rmFail \in SUBSET Range(tempDirectories) :
       \E forceFail \in SUBSET cleanFail :
          LET st == [procs |-> spawnedProcesses, mounts |-> mountedDMGs,
                     dirs |-> tempDirectories, alive |-> alive, killed |-> killed,
                     active |-> activeMounts, exist |-> existingDirs,
                     log |-> << >>, raised |-> FALSE]
              r == cleanup(st, ignoreTerm, cleanFail, forceFail, rmFail)
          IN /\ spawnedProcesses' = r.procs
             /\ mountedDMGs' = r.mounts
             /\ tempDirectories' = r.dirs
             /\ alive' = r.alive
             /\ killed' = r.killed
             /\ activeMounts' = r.active
             /\ existingDirs' = r.exist
             /\ released' = r.log
             /\ cleanupRaised' = r.raised
    /\ trackedAtCleanup' = mountedDMGs
    /\ cleanupCalls' = cleanupCalls + 1
    /\ pc' = "done"
    /\ UNCHANGED <<bodyFailed, launched, driven, awaiting, createdDirs, obtained,
                   acquired>>
    /\ UNCHANGED lastCall
    /\ UNCHANGED <<driverVars, extVars>>

Next ==
    \/ BeforeEach
    \/ MountDMG
    \/ UnmountDMG
    \/ LaunchApp
    \/ DriverSpawn
    \/ DriverClose
    \/ DriverTimeout
    \/ ProcExit
    \/ CreateTempDirectory
    \/ BodyFail
    \/ BodyEnd
    \/ AfterEach

Spec == Init /\ [][Next]_vars

(***************************************************************************)
(* The interactive drivers: the stdout 'data' handlers of the scenarios.   *)
(* Text is a sequence of pieces; a prompt is a sequence of pieces that a   *)
(* chunk boundary may cut.                                                 *)
(***************************************************************************)
\* installer output delivered to one handler over its run
MaxOut == 3

EmailPrompt == <<"Enter your work", " email:">>
EmailEmoji == <<"U+1F4E7">>
ReadyPrompt == <<"Ready to install?">>
RocketEmoji == <<"U+1F680">>
ValidEmail == <<"valid email">>
Existing == <<"existing">>
Replace == <<"replace">>

Pieces == {"Enter your work", " email:", "U+1F4E7", "Ready to install?",
           "U+1F680", "valid email", "existing", "replace"}

RECURSIVE SeqsUpTo(_, _)
SeqsUpTo(S, n) ==
    IF n = 0 THEN {<< >>}
    ELSE LET shorter == SeqsUpTo(S, n - 1)
         IN shorter \cup {Append(t, x) : t \in shorter, x \in S}

\* String.prototype.includes
Includes(text, pat) ==
    \E i \in 0..(Len(text) - Len(pat)) :
        \A k \in 1..Len(pat) : text[i + k] = pat[k]

\* The value of a JavaScript string literal: the escape \n is a line feed,
\* the escape \\ is one backslash; every other piece stands for itself.
RECURSIVE Unescape(_)
Unescape(lit) ==
    IF lit = << >> THEN << >>
    ELSE IF Head(lit) = "\\" /\ Len(lit) >= 2
         THEN (IF lit[2] = "n" THEN <<"LF">> ELSE <<lit[2]>>)
                 \o Unescape(SubSeq(lit, 3, Len(lit)))
         ELSE <<Head(lit)>> \o Unescape(Tail(lit))

\* process.stdin.write(<literal>) made for prompt rule `rule`
Write(rule, lit) == [rule |-> rule, data |-> Unescape(lit)]

\* installer_cli.spec.ts, Terminal Mode Installation
TerminalOnData(output) ==
    (IF Includes(output, EmailPrompt) \/ Includes(output, EmailEmoji)
     THEN <<Write("email", <<"cli.test@bali.love", "\\", "n">>)>> ELSE << >>)
    \o
    (IF Includes(output, ReadyPrompt) \/ Includes(output, RocketEmoji)
     THEN <<Write("confirm", <<"y", "\\", "n">>)>> ELSE << >>)

\* installer_cli.spec.ts, CLI Error Handling, invalid email.  The handler's
\* second branch ('valid email' seen after the send) kills the child and
\* writes nothing.
InvalidEmailOnData(output, received) ==
    IF ~received /\ (Includes(output, EmailPrompt) \/ Includes(output, EmailEmoji))
    THEN <<Write("email", <<"invalid-email", "\\", "n">>)>>
    ELSE << >>

\* installer_cli.spec.ts, CLI Error Handling, cancellation
CancelOnData(output) ==
    IF Includes(output, EmailPrompt) \/ Includes(output, EmailEmoji)
    THEN <<Write("email", <<"cancel.test@bali.love", "\\", "n">>)>>
    ELSE IF Includes(output, ReadyPrompt) \/ Includes(output, RocketEmoji)
    THEN <<Write("confirm", <<"n", "\\", "n">>)>>
    ELSE << >>

\* gatekeeper_scenarios.spec.ts, Network Connectivity Issues
NetworkOnData(output) ==
    (IF Includes(output, EmailPrompt)
     THEN <<Write("email", <<"network.test@bali.love", "\\", "\\", "n">>)>> ELSE << >>)
    \o
    (IF Includes(output, ReadyPrompt)
     THEN <<Write("confirm", <<"y", "\\", "\\", "n">>)>> ELSE << >>)

\* gatekeeper_scenarios.spec.ts, Existing ActivityWatch Installation Conflict
ConflictOnData(output) ==
    IF Includes(output, EmailPrompt)
    THEN <<Write("email", <<"conflict.test@bali.love", "\\", "\\", "n">>)>>
    ELSE IF Includes(output, ReadyPrompt)
    THEN <<Write("confirm", <<"y", "\\", "\\", "n">>)>>
    ELSE IF Includes(output, Existing) /\ Includes(output, Replace)
    THEN <<Write("replace", <<"y", "\\", "\\", "n">>)>>
    ELSE << >>

\* gatekeeper_scenarios.spec.ts, Permission Denied Scenarios
PermissionOnData(output) ==
    IF Includes(output, EmailPrompt)
    THEN <<Write("email", <<"permission.test@bali.love", "\\", "\\", "n">>)>>
    ELSE IF Includes(output, ReadyPrompt)
    THEN <<Write("confirm", <<"y", "\\", "\\", "n">>)>>
    ELSE << >>

Drivers == {"terminal", "invalidEmail", "cancel", "network", "conflict", "permission"}

\* A driver has just spawned the installer; what the installer will print
\* is not the harness's to choose.
DriverInit ==
    /\ RunIdle /\ LaunchIdle /\ GateIdle /\ OtherIdle
    /\ LedgerInit
    /\ driver \in Drivers
    /\ pending \in SeqsUpTo(Pieces, MaxOut)
    /\ stdout = << >>
    /\ stdin = << >>
    /\ emailPromptReceived = FALSE
    /\ invalidEmailSent = FALSE

\* One 'data' event: the next n pieces of the output arrive as one chunk.
Deliver(n, writes) ==
    /\ n \in 1..Len(pending)
    /\ stdout' = stdout \o SubSeq(pending, 1, n)
    /\ pending' = SubSeq(pending, n + 1, Len(pending))
    /\ stdin' = stdin \o writes
    /\ UNCHANGED driver
    /\ UNCHANGED <<ledgerVars, extVars>>

TerminalData ==
    /\ driver = "terminal"
    /\ \E n \in 1..Len(pending) : Deliver(n, TerminalOnData(SubSeq(pending, 1, n)))
    /\ UNCHANGED <<emailPromptReceived, invalidEmailSent>>

InvalidEmailData ==
    /\ driver = "invalidEmail"
    /\ \E n \in 1..Len(pending) :
          LET output == SubSeq(pending, 1, n)
              writes == InvalidEmailOnData(output, emailPromptReceived)
          IN /\ Deliver(n, writes)
             /\ emailPromptReceived' = (emailPromptReceived \/ writes # << >>)
             /\ invalidEmailSent' = (invalidEmailSent \/ writes # << >>)

CancelData ==
    /\ driver = "cancel"
    /\ \E n \in 1..Len(pending) : Deliver(n, CancelOnData(SubSeq(pending, 1, n)))
    /\ UNCHANGED <<emailPromptReceived, invalidEmailSent>>

NetworkData ==
    /\ driver = "network"
    /\ \E n \in 1..Len(pending) : Deliver(n, NetworkOnData(SubSeq(pending, 1, n)))
    /\ UNCHANGED <<emailPromptReceived, invalidEmailSent>>

ConflictData ==
    /\ driver = "conflict"
    /\ \E n \in 1..Len(pending) : Deliver(n, ConflictOnData(SubSeq(pending, 1, n)))
    /\ UNCHANGED <<emailPromptReceived, invalidEmailSent>>

PermissionData ==
    /\ driver = "permission"
    /\ \E n \in 1..Len(pending) : Deliver(n, PermissionOnData(SubSeq(pending, 1, n)))
    /\ UNCHANGED <<emailPromptReceived, invalidEmailSent>>

DriverNext ==
    \/ TerminalData
    \/ InvalidEmailData
    \/ CancelData
    \/ NetworkData
    \/ ConflictData
    \/ PermissionData

DriverSpec == DriverInit /\ [][DriverNext]_vars

(***************************************************************************)
(* One launch+converse run: the promise a scenario builds around a spawned *)
(* installer, settled by the 'close' handler, the 'error' handler or the   *)
(* setTimeout callback.  Time is counted in ms since the spawn and moves   *)
(* in steps of Step.                                                       *)
(***************************************************************************)
\* steps the clock runs on after the timer's deadline
ExtraSteps == 2

Step == 5 * 1000

RunDrivers == {"terminal", "conflict", "hang", "permission"}

\* the delay given to setTimeout
Timeout(d) ==
    CASE d = "terminal" -> 5 * 60 * 1000
      [] d = "conflict" -> 3 * 60 * 1000
      [] d = "hang" -> 20000
      [] OTHER -> 2 * 60 * 1000

\* elapsed > 15000
GracePeriod == 15000

\* How a child ends: with an exit status (code <<n>>), or by a signal
\* (the 'close' handler then receives code null, here << >>).
ExitStatuses == {[signalled |-> FALSE, code |-> <<0>>],
                 [signalled |-> FALSE, code |-> <<1>>],
                 [signalled |-> TRUE, code |-> << >>]}

\* a child that could not be started ends with a negative code
SpawnFailed == [signalled |-> FALSE, code |-> <<0 - 2>>]

BySignal == [signalled |-> TRUE, code |-> << >>]

\* code || 0
OrZero(status) ==
    IF status.code = << >> \/ status.code = <<0>> THEN 0 ELSE status.code[1]

Completed(code, t) == [kind |-> "Completed", exitCode |-> code, hung |-> FALSE, at |-> t]
TimedOut(code, isHung, t) == [kind |-> "TimedOut", exitCode |-> code, hung |-> isHung, at |-> t]
Errored(t) == [kind |-> "Errored", exitCode |-> << >>, hung |-> FALSE, at |-> t]

\* a promise whose latest resolve/reject call wins
Settle_Overwrite(current, outcome) == outcome

\* resolve(...) / reject(...): only the first call settles the promise
Settle(current, outcome) ==
    IF current.kind = "pending" THEN outcome ELSE current

\* process.on('close', (code) => ...)
OnClose(d, status, res, t) ==
    CASE d \in {"terminal", "conflict"} -> Settle(res, Completed(<<OrZero(status)>>, t))
      [] d = "hang" -> res
      [] OTHER -> Settle(res, Completed(<< >>, t))

\* a timer whose callback signals the child but settles nothing
OnTimeout_NoSettle(d, res, killedFlag, received, t) ==
    [kill |-> (d # "terminal" \/ ~killedFlag), result |-> res]

\* The setTimeout callback.  kill: process.kill('SIGTERM') is called.
OnTimeout(d, res, killedFlag, received, t) ==
    CASE d = "terminal" ->
            IF ~killedFlag
            THEN [kill |-> TRUE, result |-> Settle(res, TimedOut(<< >>, FALSE, t))]
            ELSE [kill |-> FALSE, result |-> res]
      [] d = "conflict" ->
            [kill |-> TRUE, result |-> Settle(res, TimedOut(<<0 - 1>>, FALSE, t))]
      [] d = "hang" ->
            [kill |-> TRUE,
             result |-> Settle(res, TimedOut(<< >>, received /\ t > GracePeriod, t))]
      [] OTHER ->
            [kill |-> TRUE, result |-> Settle(res, TimedOut(<< >>, FALSE, t))]

\* spawn(executablePath, ['--terminal'], ...) has just returned.  Only the
\* Terminal Mode driver listens for 'error' (a child that cannot start).
RunInit ==
    /\ LedgerInit /\ DriverIdle /\ LaunchIdle /\ GateIdle /\ OtherIdle
    /\ runDriver \in RunDrivers
    /\ child \in (IF runDriver = "terminal" THEN {"running", "failed"} ELSE {"running"})
    /\ ignoresTerm \in BOOLEAN
    /\ now = 0
    /\ exitStatus = NoExit
    /\ exitedAt = 0 - 1
    /\ procKilled = FALSE
    /\ termSent = FALSE
    /\ closeSeen = FALSE
    /\ timerFired = FALSE
    /\ result = Pending
    /\ promptReceived = FALSE
    /\ promptAt = 0 - 1
    /\ lastOutputAt = 0 - 1

RunFrame == UNCHANGED <<ledgerVars, driverVars, launchVars, gateVars, scVars,
                        runnerVars, bodyVars, runDriver, ignoresTerm>>

\* an event of the child or a due timer is waiting for the event loop
EventDue ==
    \/ child = "failed"
    \/ child = "exited" /\ ~closeSeen
    \/ now >= Timeout(runDriver) /\ ~timerFired

\* Time passes; a due callback runs before the clock moves on.
Tick ==
    /\ runDriver # "none"
    /\ ~EventDue
    /\ now < Timeout(runDriver) + ExtraSteps * Step
    /\ now' = now + Step
    /\ UNCHANGED <<child, exitStatus, exitedAt, procKilled, termSent, closeSeen,
                   timerFired, result, promptReceived, promptAt, lastOutputAt>>
    /\ RunFrame

\* process.stdout.on('data', ...) of the hang test: a chunk arrives, with
\* or without the email prompt in it.
Output ==
    /\ runDriver = "hang" /\ child = "running"
    /\ \E prompt \in BOOLEAN :
          /\ promptReceived' = (promptReceived \/ prompt)
          /\ promptAt' = IF prompt THEN now ELSE promptAt
    /\ lastOutputAt' = now
    /\ UNCHANGED <<now, child, exitStatus, exitedAt, procKilled, termSent,
                   closeSeen, timerFired, result>>
    /\ RunFrame

\* The child ends by itself or by a signal from outside the harness.
ChildExit ==
    /\ child = "running"
    /\ \E status \in ExitStatuses : exitStatus' = status
    /\ child' = "exited"
    /\ exitedAt' = now
    /\ UNCHANGED <<now, procKilled, termSent, closeSeen, timerFired, result,
                   promptReceived, promptAt, lastOutputAt>>
    /\ RunFrame

\* The 'close' event of the ended child.
Close ==
    /\ child = "exited" /\ ~closeSeen
    /\ closeSeen' = TRUE
    /\ result' = OnClose(runDriver, exitStatus, result, now)
    /\ UNCHANGED <<now, child, exitStatus, exitedAt, procKilled, termSent,
                   timerFired, promptReceived, promptAt, lastOutputAt>>
    /\ RunFrame

\* process.on('error', (error) => reject(error)): the child could not be
\* started; its 'close' event follows.
SpawnError ==
    /\ child = "failed"
    /\ result' = Settle(result, Errored(now))
    /\ child' = "exited"
    /\ exitStatus' = SpawnFailed
    /\ exitedAt' = now
    /\ UNCHANGED <<now, procKilled, termSent, closeSeen, timerFired,
                   promptReceived, promptAt, lastOutputAt>>
    /\ RunFrame

\* The setTimeout callback runs.  process.kill('SIGTERM') reaches only a
\* running child and then sets .killed; the child dies of it unless it
\* ignores the signal.
TimerFire ==
    /\ runDriver # "none"
    /\ now >= Timeout(runDriver) /\ ~timerFired
    /\ timerFired' = TRUE
    /\ LET r == OnTimeout(runDriver, result, procKilled, promptReceived, now)
           delivered == r.kill /\ child = "running"
           dies == delivered /\ ~ignoresTerm
       IN /\ result' = r.result
          /\ termSent' = (termSent \/ r.kill)
          /\ procKilled' = (procKilled \/ delivered)
          /\ child' = IF dies THEN "exited" ELSE child
          /\ exitStatus' = IF dies THEN BySignal ELSE exitStatus
          /\ exitedAt' = IF dies THEN now ELSE exitedAt
    /\ UNCHANGED <<now, closeSeen, promptReceived, promptAt, lastOutputAt>>
    /\ RunFrame

RunNext ==
    \/ Tick
    \/ Output
    \/ ChildExit
    \/ Close
    \/ SpawnError
    \/ TimerFire

RunSpec == RunInit /\ [][RunNext]_vars

\* Time passes, timers fire and pending events are delivered.
FairRunSpec ==
    /\ RunSpec
    /\ WF_vars(Tick) /\ WF_vars(TimerFire) /\ WF_vars(Close) /\ WF_vars(SpawnError)

(***************************************************************************)
(* launchApp(appPath, args, timeout): spawn `open -W appPath`, then poll   *)
(* the process table once a second until a process matching the app's name *)
(* shows up or the timeout has passed.                                     *)
(***************************************************************************)
\* polls the clock runs on after the timeout
ExtraPolls == 2

\* setInterval(..., 1000)
PollPeriod == 1000

\* timeouts the scenarios pass to launchApp
LaunchTimeouts == {10000, 15000, 30000}

\* findProcessesByName(path.basename(appPath, '.app')):
\* ps aux | grep -i "<name>" | grep -v grep.  The launcher's command line
\* is `open -W <appPath>`, which contains the name.
findProcessesByName(launcherState, app) ==
    (IF launcherState = "running" THEN {"open -W appPath"} ELSE {})
        \cup (IF app THEN {"app"} ELSE {})

\* One run of the setInterval callback at time t.
CheckInterval(t, timeout, launcherState, app, res) ==
    IF t > timeout
    THEN [armed |-> FALSE, result |-> Settle(res, [kind |-> "timeout", at |-> t])]
    ELSE IF findProcessesByName(launcherState, app) # {}
    THEN [armed |-> FALSE, result |-> Settle(res, [kind |-> "resolved", at |-> t])]
    ELSE [armed |-> TRUE, result |-> res]

\* spawn(...) and spawnedProcesses.push(process) are done (LaunchApp of the
\* scenario model); the promise and the interval have just been created.
LaunchInit ==
    /\ LedgerInit /\ DriverIdle /\ RunIdle /\ GateIdle /\ OtherIdle
    /\ launchTimeout \in LaunchTimeouts
    /\ launchClock = 0
    /\ launcher \in {"running", "failed"}
    /\ launcherSignalled = FALSE
    /\ appRunning = FALSE
    /\ appEverRan = FALSE
    /\ checkInterval = TRUE
    /\ launchResult = [kind |-> "pending", at |-> 0 - 1]

LaunchRest == UNCHANGED <<ledgerVars, driverVars, runVars, gateVars, scVars,
                          runnerVars, launchTimeout>>

LaunchFrame == LaunchRest /\ UNCHANGED bodyVars

\* The poll period elapses and the interval callback runs.  launchApp
\* sends no signal on any of its paths.
Poll ==
    /\ checkInterval /\ launcher # "failed"
    /\ launchClock < launchTimeout + ExtraPolls * PollPeriod
    /\ launchClock' = launchClock + PollPeriod
    /\ LET r == CheckInterval(launchClock', launchTimeout, launcher, appRunning,
                              launchResult)
       IN /\ checkInterval' = r.armed
          /\ launchResult' = r.result
    /\ UNCHANGED <<launcher, launcherSignalled, appRunning, appEverRan>>
    /\ LaunchFrame

\* process.on('error', ...): the launcher could not be started.
LaunchError ==
    /\ launcher = "failed"
    /\ launcher' = "exited"
    /\ checkInterval' = FALSE
    /\ launchResult' = Settle(launchResult, [kind |-> "error", at |-> launchClock])
    /\ UNCHANGED <<launchClock, launcherSignalled, appRunning, appEverRan>>
    /\ LaunchFrame

\* The application's own process comes up.
AppAppears ==
    /\ launcher = "running" /\ ~appRunning
    /\ appRunning' = TRUE
    /\ appEverRan' = TRUE
    /\ UNCHANGED <<launchClock, launcher, launcherSignalled, checkInterval, launchResult>>
    /\ LaunchFrame

\* The application's process ends.
AppExits ==
    /\ appRunning
    /\ appRunning' = FALSE
    /\ UNCHANGED <<launchClock, launcher, launcherSignalled, appEverRan,
                   checkInterval, launchResult>>
    /\ LaunchFrame

\* `open -W` returns: the application could not be opened, or it has quit.
LauncherExits ==
    /\ launcher = "running" /\ ~appRunning
    /\ launcher' = "exited"
    /\ UNCHANGED <<launchClock, launcherSignalled, appRunning, appEverRan,
                   checkInterval, launchResult>>
    /\ LaunchFrame

\* launchApp(installedAppPath, [], 15000) of Detect Silent Failure Scenarios
SilentTimeout == 15000

\* elapsedTime < 5000
SilentWindow == 5000

\* What the silent-failure body makes of the launch attempt: after a
\* resolve, no process left after the sleep; in the catch block, no process
\* and elapsedTime < 5000.
SilentFailureCheck(kind, elapsed, visible) ==
    IF kind = "resolved" THEN ~visible
    ELSE ~visible /\ elapsed < SilentWindow

\* Detect Silent Failure Scenarios from `await macOS.launchApp(...)` on:
\* the try block's continuation or the catch block.
SilentFailureFollowUp ==
    /\ launchTimeout = SilentTimeout
    /\ launchResult.kind # "pending"
    /\ ~silent.done
    /\ LET visible == findProcessesByName(launcher, appRunning) # {}
           elapsed == launchResult.at
       IN silent' = [done |-> TRUE, visible |-> visible, elapsed |-> elapsed,
                     caught |-> SilentFailureCheck(launchResult.kind, elapsed, visible)]
    /\ UNCHANGED <<launchClock, launcher, launcherSignalled, appRunning, appEverRan,
                   checkInterval, launchResult, body, killCall, scTemp>>
    /\ LaunchRest

\* what the pid handed to killProcess refers to
Pids == {"NaN", "gone", "live"}

\* a killProcess that goes on to KILL whatever happened, and rethrows
killProcess_Unordered(delivered, stillAlive, killOk) ==
    [signals |-> <<"TERM", "KILL">>, warned |-> FALSE, raised |-> ~delivered]

\* killProcess(pid, 'TERM'): kill -TERM, sleep, kill -0, kill -KILL, in
\* two nested try blocks.  delivered: kill -TERM exited 0; stillAlive:
\* kill -0 exited 0; killOk: kill -KILL exited 0 (its failure lands in the
\* inner catch).
killProcess(delivered, stillAlive, killOk) ==
    IF ~delivered
    THEN [signals |-> <<"TERM">>, warned |-> TRUE, raised |-> FALSE]
    ELSE IF ~stillAlive
    THEN [signals |-> <<"TERM", "0">>, warned |-> FALSE, raised |-> FALSE]
    ELSE [signals |-> <<"TERM", "0", "KILL">>, warned |-> FALSE, raised |-> FALSE]

\* await macOS.killProcess(processInfo.pid) after the launch resolved.  A
\* live pid is that of the first matching process: the launcher while it
\* runs, else the application.
KillProcess ==
    /\ launchResult.kind = "resolved"
    /\ ~killCall.called
    /\ \E pid \in Pids, survivesTerm \in BOOLEAN, killOk \in BOOLEAN :
          LET delivered == pid = "live" /\ (launcher = "running" \/ appRunning)
              stillAlive == delivered /\ survivesTerm
              r == killProcess(delivered, stillAlive, killOk)
              dead == delivered /\ (~stillAlive \/ killOk)
          IN /\ killCall' = [called |-> TRUE, delivered |-> delivered,
                             stillAlive |-> stillAlive, signals |-> r.signals,
                             warned |-> r.warned, raised |-> r.raised]
             /\ launcher' = IF dead /\ launcher = "running" THEN "exited" ELSE launcher
             /\ appRunning' = IF dead /\ launcher # "running" THEN FALSE ELSE appRunning
    /\ UNCHANGED <<launchClock, launcherSignalled, appEverRan, checkInterval,
                   launchResult, silent, body, scTemp>>
    /\ LaunchRest

LaunchNext ==
    \/ Poll
    \/ LaunchError
    \/ AppAppears
    \/ AppExits
    \/ LauncherExits
    \/ SilentFailureFollowUp
    \/ KillProcess

LaunchSpec == LaunchInit /\ [][LaunchNext]_vars

(***************************************************************************)
(* The security gate: setQuarantineAttribute (xattr) and                   *)
(* checkGatekeeperStatus (spctl --assess).  marker holds <<path, level>>:  *)
(* the attribute on the path itself ("top") or on files below it           *)
(* ("inner").                                                              *)
(***************************************************************************)
Paths == {"appA", "appB"}

Levels == {"top", "inner"}

\* How spctl weighs the attribute is the OS's business: either it looks at
\* the code's signature alone, or it lets through whatever does not carry
\* the quarantine attribute.
GatePolicies == {"signature", "quarantine"}

\* spctl --assess --type execute "path" exits 0
Accepts(path, mk, tr, policy) ==
    \/ path \in tr
    \/ policy = "quarantine" /\ <<path, "top">> \notin mk

\* a checkGatekeeperStatus that lets the tool's error through
checkGatekeeperStatus_Rethrow(path, mk, tr, policy, rejectedWord) ==
    IF Accepts(path, mk, tr, policy)
    THEN [blocked |-> FALSE, reason |-> "none", raised |-> FALSE]
    ELSE [blocked |-> TRUE, reason |-> "unknown", raised |-> TRUE]

\* checkGatekeeperStatus(appPath).  rejectedWord: the tool's message
\* contains 'rejected'.  raised: the call ends with an exception.
checkGatekeeperStatus(path, mk, tr, policy, rejectedWord) ==
    IF Accepts(path, mk, tr, policy)
    THEN [blocked |-> FALSE, reason |-> "none", raised |-> FALSE]
    ELSE [blocked |-> TRUE, reason |-> IF rejectedWord THEN "unsigned" ELSE "unknown",
          raised |-> FALSE]

\* a removal that leaves the attribute in place
setQuarantineAttribute_KeepMarker(path, enable, mk, ok) ==
    IF enable /\ ok THEN mk \cup {<<path, "top">>} ELSE mk

\* setQuarantineAttribute(filePath, enable): xattr -w on the path itself,
\* or xattr -r -d on the path and everything below it.  ok: the tool is
\* able to change the attribute; its failure is caught and logged.
setQuarantineAttribute(path, enable, mk, ok) ==
    IF ~ok THEN mk
    ELSE IF enable THEN mk \cup {<<path, "top">>}
    ELSE mk \ {<<path, l>> : l \in Levels}

GateInit ==
    /\ LedgerInit /\ DriverIdle /\ RunIdle /\ LaunchIdle /\ OtherIdle
    /\ marker \in SUBSET (Paths \X Levels)
    /\ trusted \in SUBSET Paths
    /\ gatePolicy \in GatePolicies
    /\ trip = NoTrip
    /\ lastCheck = NoCheck

GateFrame == UNCHANGED <<ledgerVars, driverVars, runVars, launchVars, scVars,
                         runnerVars, bodyVars, trusted, gatePolicy>>

\* await macOS.checkGatekeeperStatus(path): the first call on a path opens
\* the observed round trip, the call after the two attribute calls closes it.
CheckGatekeeperStatus ==
    /\ \E path \in Paths, rejectedWord \in BOOLEAN :
          LET r == checkGatekeeperStatus(path, marker, trusted, gatePolicy, rejectedWord)
          IN \/ /\ trip.stage = 0
                /\ trip' = [trip EXCEPT !.path = path, !.stage = 1,
                                        !.hadMarker = (<<path, "top">> \in marker),
                                        !.before = r.blocked]
             \/ /\ trip.stage = 3 /\ path = trip.path
                /\ trip' = [trip EXCEPT !.stage = 4, !.after = r.blocked]
             /\ lastCheck' = [called |-> TRUE,
                              accepted |-> Accepts(path, marker, trusted, gatePolicy),
                              rejectedWord |-> rejectedWord, blocked |-> r.blocked,
                              reason |-> r.reason, raised |-> r.raised]
    /\ UNCHANGED marker
    /\ GateFrame

\* await macOS.setQuarantineAttribute(path, enable): on the observed path
\* the calls are (path, true) and then (path, false); calls on another
\* path may come in between.
SetQuarantineAttribute ==
    /\ \E path \in Paths, enable \in BOOLEAN, ok \in BOOLEAN :
          /\ marker' = setQuarantineAttribute(path, enable, marker, ok)
          /\ \/ /\ trip.stage = 1 /\ path = trip.path /\ enable
                /\ trip' = [trip EXCEPT !.stage = 2, !.setFailed = ~ok]
             \/ /\ trip.stage = 2 /\ path = trip.path /\ ~enable
                /\ trip' = [trip EXCEPT !.stage = 3, !.clearFailed = ~ok]
             \/ /\ trip.stage \in 1..3 /\ path # trip.path
                /\ UNCHANGED trip
    /\ UNCHANGED lastCheck
    /\ GateFrame

GateNext ==
    \/ CheckGatekeeperStatus
    \/ SetQuarantineAttribute

GateSpec == GateInit /\ [][GateNext]_vars

(***************************************************************************)
(* Scenario bodies: the two gate-blocking scenarios, the network-disabled  *)
(* scenario and the conflicting-prior-install scenario, each from the      *)
(* point where the installer app has been copied to /Applications, on to   *)
(* afterEach and the suite's global teardown.                              *)
(***************************************************************************)
\* latest poll at which the environment lets SecurityAgent or its button
\* show up (later means: not within the budget)
MaxArrival == 2

\* execSync(..., { timeout: 10000 })
DialogBudget == 10000

\* delay 0.5
DialogDelay == 500

\* not within the budget
Never == DialogBudget

ArrivalTimes == {k * DialogDelay : k \in 0..MaxArrival} \cup {Never}

\* The AppleScript loop from time t (ms after the call):
\*   repeat while exists (processes where name is "SecurityAgent")
\*     if exists button ... then click ...; exit repeat
\*     delay 0.5
\* agentFrom / buttonFrom: when the SecurityAgent process / its button
\* come into existence.  At the budget execSync kills osascript and throws.
RECURSIVE DialogLoop(_, _, _)
DialogLoop(t, agentFrom, buttonFrom) ==
    IF t >= DialogBudget THEN [clicked |-> FALSE, threw |-> TRUE, at |-> t]
    ELSE IF agentFrom > t THEN [clicked |-> FALSE, threw |-> FALSE, at |-> t]
    ELSE IF buttonFrom <= t THEN [clicked |-> TRUE, threw |-> FALSE, at |-> t]
    ELSE DialogLoop(t + DialogDelay, agentFrom, buttonFrom)

\* a catch block that rethrows
Swallow_Rethrow(threw) == threw

\* catch (error) { console.warn(...) } of setQuarantineAttribute and of
\* handleGatekeeperDialog: the error goes no further
Swallow(threw) == FALSE

\* handleGatekeeperDialog(action).  scriptFails: osascript itself exits
\* nonzero (no accessibility permission, no such window).
handleGatekeeperDialog(agentFrom, buttonFrom, scriptFails) ==
    LET r == IF scriptFails THEN [clicked |-> FALSE, threw |-> TRUE]
             ELSE DialogLoop(0, agentFrom, buttonFrom)
    IN [clicked |-> r.clicked, warned |-> r.threw, raised |-> Swallow(r.threw)]

ScenarioKinds == {"gateCli", "gateGk", "network", "conflict"}

InstalledApp == "appA"

ExistingAWPath == "/Applications/ActivityWatch.app"

\* a body that goes on to the launch whatever the assessment said
AfterCheck_NoGate(kind, blocked) == [pc |-> "launch", failed |-> FALSE]

\* What follows the first checkGatekeeperStatus:
\*   gateCli: expect(gatekeeperStatus.blocked).toBe(true)
\*   gateGk:  if (gatekeeperStatus.blocked) { ... } else { ... }
AfterCheck(kind, blocked) ==
    IF blocked THEN [pc |-> "launch", failed |-> FALSE]
    ELSE [pc |-> "ended", failed |-> (kind = "gateCli")]

\* networkTestResult.output as built by the 'close' handler
NetworkOutput(run) ==
    (IF run.timedOut THEN <<"TIMEOUT", "\\n">> ELSE << >>)
        \o <<"STDOUT:", "\\n">> \o run.stdout
        \o <<"\\n", "\\n", "STDERR:", "\\n">> \o run.stderr

\* expect(networkTestResult.output.length).toBeGreaterThan(0) passes
ExpectOutput(output) == Len(output) > 0

\* catch (networkError) { console.warn(...) }: whatever the try block
\* threw, a failed expect included, the body goes on
CatchNetworkError(threw) == FALSE

\* cleanup() removes the directories createTempDirectory tracked
CleanupRemoves(path) == path \in {"/tmp/mock-aw-*"}

\* the rm -rf patterns of the global teardown
TeardownRemoves(path) ==
    path \in {"/tmp/mock_applications_*", "/tmp/aw_installer_test_*"}

\* createTempDirectory('mock-aw-'); names are sequences of pieces so that a
\* glob can be matched against them
MockPrefix == <<"mock", "-", "aw", "-">>

\* `/tmp/${prefix}${Date.now()}-${random}`, made, and pushed to
\* tempDirectories
createTempDirectory(prefix) ==
    [name |-> prefix \o <<"now", "-", "random">>, exists |-> TRUE, tracked |-> TRUE]

\* /tmp/mock_applications_* and /tmp/aw_installer_test_*
SweepPatterns == {<<"mock", "_", "applications", "_">>,
                  <<"aw", "_", "installer", "_", "test", "_">>}

\* the shell's match of /tmp/<pattern>* against /tmp/<name>
GlobMatches(pattern, name) ==
    /\ Len(pattern) <= Len(name)
    /\ SubSeq(name, 1, Len(pattern)) = pattern

\* the teardown's rm -rf removes the directory of this name
SweepRemoves(name) == \E pattern \in SweepPatterns : GlobMatches(pattern, name)

FirstStep(kind) ==
    CASE kind \in {"gateCli", "gateGk"} -> "quarantine"
      [] kind = "network" -> "netDown"
      [] OTHER -> "stage"

ScenarioInit ==
    /\ LedgerInit /\ DriverIdle /\ RunIdle /\ LaunchIdle /\ RunnerIdle /\ BodyIdle
    /\ marker \in SUBSET ({InstalledApp} \X Levels)
    /\ trusted \in SUBSET {InstalledApp}
    /\ gatePolicy \in GatePolicies
    /\ trip = NoTrip
    /\ lastCheck = NoCheck
    /\ scKind \in ScenarioKinds
    /\ scPc = FirstStep(scKind)
    /\ scFailed = FALSE
    /\ scLog = << >>
    /\ scBlocked = "none"
    /\ scDialog = NoDialog
    /\ scRaised = FALSE
    /\ scRun = NoRun
    /\ scMock = FALSE

ScRest == UNCHANGED <<ledgerVars, driverVars, runVars, launchVars, runnerVars,
                      trusted, gatePolicy, trip, lastCheck, scKind,
                      silent, body, killCall>>

ScFrame == ScRest /\ UNCHANGED scTemp

\* await macOS.setQuarantineAttribute(installedAppPath, true), and in the
\* gateGk body later (installedAppPath, false)
ScSetQuarantine ==
    /\ scPc \in {"quarantine", "remove"}
    /\ \E ok \in BOOLEAN :
          LET enable == (scPc = "quarantine")
              raised == Swallow(~ok)
          IN /\ marker' = setQuarantineAttribute(InstalledApp, enable, marker, ok)
             /\ scRaised' = (scRaised \/ raised)
             /\ scFailed' = (scFailed \/ raised)
             /\ scLog' = Append(scLog, IF enable THEN "quarantine" ELSE "unquarantine")
             /\ scPc' = IF raised THEN "ended"
                        ELSE IF enable THEN "check" ELSE "recheck"
    /\ UNCHANGED <<scBlocked, scDialog, scRun, scMock>>
    /\ ScFrame

\* await macOS.checkGatekeeperStatus(installedAppPath) and the test made
\* on its result
ScCheck ==
    /\ scPc \in {"check", "recheck"}
    /\ \E rejectedWord \in BOOLEAN :
          LET r == checkGatekeeperStatus(InstalledApp, marker, trusted, gatePolicy,
                                         rejectedWord)
              next == IF scPc = "check" THEN AfterCheck(scKind, r.blocked)
                      ELSE [pc |-> "ended", failed |-> FALSE]
          IN /\ scBlocked' = IF r.blocked THEN "blocked" ELSE "allowed"
             /\ scLog' = Append(scLog, scBlocked')
             /\ scPc' = next.pc
             /\ scFailed' = (scFailed \/ next.failed)
    /\ UNCHANGED <<marker, scDialog, scRaised, scRun, scMock>>
    /\ ScFrame

\* const launchPromise = macOS.launchApp(...), not awaited; then sleep and
\* takeScreenshot, which never throws
ScLaunch ==
    /\ scPc = "launch"
    /\ scLog' = Append(scLog, "launch")
    /\ scPc' = "dialog"
    /\ UNCHANGED <<marker, scFailed, scBlocked, scDialog, scRaised, scRun, scMock>>
    /\ ScFrame

\* what follows the try block of the launch attempt
AfterLaunchAttempt(kind) == IF kind = "gateGk" THEN "remove" ELSE "ended"

\* await macOS.handleGatekeeperDialog('open')
ScDialog ==
    /\ scPc = "dialog"
    /\ \E agentFrom \in ArrivalTimes, scriptFails \in BOOLEAN :
       \E buttonFrom \in {b \in ArrivalTimes : b >= agentFrom} :
          LET r == handleGatekeeperDialog(agentFrom, buttonFrom, scriptFails)
          IN /\ scDialog' = [called |-> TRUE, agentFrom |-> agentFrom,
                             buttonFrom |-> buttonFrom, clicked |-> r.clicked,
                             warned |-> r.warned]
             /\ scRaised' = (scRaised \/ r.raised)
             /\ scPc' = IF r.raised THEN AfterLaunchAttempt(scKind) ELSE "await"
    /\ scLog' = Append(scLog, "dialog")
    /\ UNCHANGED <<marker, scFailed, scBlocked, scRun, scMock>>
    /\ ScFrame

\* await launchPromise and the rest of the try/catch around it.  Only the
\* gateCli body has expects there (on the pid, or on the error's text).
ScAwaitLaunch ==
    /\ scPc = "await"
    /\ \E expectFails \in BOOLEAN :
          scFailed' = (scFailed \/ (scKind = "gateCli" /\ expectFails))
    /\ scPc' = IF scFailed' THEN "ended" ELSE AfterLaunchAttempt(scKind)
    /\ UNCHANGED <<marker, scLog, scBlocked, scDialog, scRaised, scRun, scMock>>
    /\ ScFrame

\* await macOS.setNetworkConnectivity(false): failures are logged inside
ScNetworkDown ==
    /\ scPc = "netDown"
    /\ scLog' = Append(scLog, "netDown")
    /\ scPc' = "run"
    /\ UNCHANGED <<marker, scFailed, scBlocked, scDialog, scRaised, scRun, scMock>>
    /\ ScFrame

\* execSync(`cp -R "${mockAWDir}" "${existingAWPath}"`)
ScStageMock ==
    /\ scPc = "stage"
    /\ \E made \in BOOLEAN, copied \in BOOLEAN :
          /\ scTemp' = IF made THEN createTempDirectory(MockPrefix) ELSE scTemp
          /\ scMock' = (made /\ copied)
          /\ scFailed' = ~scMock'
          /\ scPc' = IF scMock' THEN "run" ELSE "ended"
    /\ UNCHANGED <<marker, scLog, scBlocked, scDialog, scRaised, scRun>>
    /\ ScRest

Texts == {<< >>, <<"text">>}

\* The body awaits the promise around the installer: exit code (<< >>
\* for a signal), what it printed, whether the timer settled the promise.
\* The installer may itself replace what it finds at the install location.
ScInstallerRun ==
    /\ scPc = "run"
    /\ \E code \in {<<0>>, <<1>>, << >>}, out \in Texts, err \in Texts,
          timedOut \in BOOLEAN :
          scRun' = [done |-> TRUE, code |-> code, stdout |-> out, stderr |-> err,
                    timedOut |-> timedOut]
    /\ \E replaced \in BOOLEAN : scMock' = (scMock /\ ~replaced)
    /\ scPc' = IF scKind = "network" THEN "verdict" ELSE "log"
    /\ UNCHANGED <<marker, scFailed, scLog, scBlocked, scDialog, scRaised>>
    /\ ScFrame

\* spawn(executablePath, ...) cannot start the installer.  The child emits
\* 'error'; these promises register 'data' and 'close' handlers and a
\* timer but no 'error' handler, so the event is thrown as an uncaught
\* exception outside the body's try block and 'close' does not follow.
\* The runner fails the test and stops the worker with the body still
\* waiting on its promise (abandoned), unless the worker lives on until
\* the timer settles the promise.
ScSpawnFails ==
    /\ scPc = "run"
    /\ \E abandoned \in BOOLEAN :
          IF abandoned
          THEN /\ scPc' = "ended"
               /\ scRun' = scRun
          ELSE /\ scPc' = IF scKind = "network" THEN "verdict" ELSE "log"
               /\ scRun' = [done |-> TRUE, code |-> << >>, stdout |-> << >>,
                            stderr |-> << >>, timedOut |-> TRUE]
    /\ scFailed' = TRUE
    /\ UNCHANGED <<marker, scLog, scBlocked, scDialog, scRaised, scMock>>
    /\ ScFrame

\* The network body after the run, still inside try: write the log,
\* expect on the output's length, console messages.
ScNetworkVerdict ==
    /\ scPc = "verdict"
    /\ \E logWriteFails \in BOOLEAN :
          scFailed' = (scFailed
                         \/ CatchNetworkError(logWriteFails
                                              \/ ~ExpectOutput(NetworkOutput(scRun))))
    /\ scPc' = "restore"
    /\ UNCHANGED <<marker, scLog, scBlocked, scDialog, scRaised, scRun, scMock>>
    /\ ScFrame

\* finally { await macOS.setNetworkConnectivity(true) }
ScNetworkRestore ==
    /\ scPc = "restore"
    /\ scLog' = Append(scLog, "netUp")
    /\ scPc' = "ended"
    /\ UNCHANGED <<marker, scFailed, scBlocked, scDialog, scRaised, scRun, scMock>>
    /\ ScFrame

\* fs.writeFileSync('tests/logs/existing-installation-conflict.log', ...)
\* and the analysis of the output
ScConflictLog ==
    /\ scPc = "log"
    /\ \E logWriteFails \in BOOLEAN :
          /\ scFailed' = (scFailed \/ logWriteFails)
          /\ scPc' = IF logWriteFails THEN "ended" ELSE "rm"
    /\ UNCHANGED <<marker, scLog, scBlocked, scDialog, scRaised, scRun, scMock>>
    /\ ScFrame

\* try { execSync(`rm -rf "${existingAWPath}"`) } catch { warn }
ScConflictRm ==
    /\ scPc = "rm"
    /\ \E removed \in BOOLEAN : scMock' = (scMock /\ ~removed)
    /\ scPc' = "ended"
    /\ UNCHANGED <<marker, scFailed, scLog, scBlocked, scDialog, scRaised, scRun>>
    /\ ScFrame

\* test.afterEach: await macOS.cleanup()
ScAfterEach ==
    /\ scPc = "ended"
    /\ scMock' = (scMock /\ ~CleanupRemoves(ExistingAWPath))
    /\ \E removed \in BOOLEAN :
          scTemp' = [scTemp EXCEPT !.exists = @ /\ ~(scTemp.tracked /\ removed),
                                   !.tracked = FALSE]
    /\ scPc' = "teardown"
    /\ UNCHANGED <<marker, scFailed, scLog, scBlocked, scDialog, scRaised, scRun>>
    /\ ScRest

\* globalTeardown
ScTeardown ==
    /\ scPc = "teardown"
    /\ scMock' = (scMock /\ ~TeardownRemoves(ExistingAWPath))
    /\ scTemp' = [scTemp EXCEPT !.exists = @ /\ ~SweepRemoves(scTemp.name)]
    /\ scPc' = "finished"
    /\ UNCHANGED <<marker, scFailed, scLog, scBlocked, scDialog, scRaised, scRun>>
    /\ ScRest

ScenarioNext ==
    \/ ScSetQuarantine
    \/ ScCheck
    \/ ScLaunch
    \/ ScDialog
    \/ ScAwaitLaunch
    \/ ScNetworkDown
    \/ ScStageMock
    \/ ScInstallerRun
    \/ ScSpawnFails
    \/ ScNetworkVerdict
    \/ ScNetworkRestore
    \/ ScConflictLog
    \/ ScConflictRm
    \/ ScAfterEach
    \/ ScTeardown

ScenarioSpec == ScenarioInit /\ [][ScenarioNext]_vars

(***************************************************************************)
(* The test runner under playwright.config.ts: scenarios handed to worker  *)
(* processes, each scenario with a window between its first and its last   *)
(* access to the install location under /Applications.                     *)
(***************************************************************************)
\* number of scenarios the runner has to schedule
MaxScenarios == 3

Scenarios == 1..MaxScenarios

\* logical CPU cores of the machine the suite runs on
Cores == {1, 2, 4, 8}

\* workers: process.env.CI ? 1 : undefined.  Left undefined the runner
\* takes half of the logical cores, at least one.
Workers(inCI, cores) ==
    IF inCI THEN 1
    ELSE IF cores \div 2 >= 1 THEN cores \div 2 ELSE 1

\* scenarios a worker is running
Running == {s \in Scenarios : phase[s] \in {"started", "installing", "released"}}

\* scenarios between their first and last access to the install path
Installing == {s \in Scenarios : phase[s] = "installing"}

RunnerInit ==
    /\ LedgerInit /\ DriverIdle /\ RunIdle /\ LaunchIdle /\ GateIdle /\ ScenarioIdle
    /\ BodyIdle
    /\ ci \in BOOLEAN
    /\ \E cores \in Cores : workers = Workers(ci, cores)
    /\ phase = [s \in Scenarios |-> "queued"]

RunnerFrame == UNCHANGED <<ledgerVars, driverVars, runVars, launchVars, gateVars,
                           scVars, bodyVars, ci, workers>>

\* fullyParallel: true: any queued scenario, of any file, goes to any free
\* worker
RunnerBegin ==
    /\ \E s \in Scenarios :
          /\ phase[s] = "queued"
          /\ Cardinality(Running) < workers
          /\ phase' = [phase EXCEPT ![s] = "started"]
    /\ RunnerFrame

\* installAppToApplications: rm -rf of the target, then the copy
FirstAccess ==
    /\ \E s \in Scenarios :
          /\ phase[s] = "started"
          /\ phase' = [phase EXCEPT ![s] = "installing"]
    /\ RunnerFrame

\* the scenario's last use of what it installed or staged
LastAccess ==
    /\ \E s \in Scenarios :
          /\ phase[s] = "installing"
          /\ phase' = [phase EXCEPT ![s] = "released"]
    /\ RunnerFrame

\* the scenario ends (afterEach included) and its worker is free
RunnerEnd ==
    /\ \E s \in Scenarios :
          /\ phase[s] \in {"started", "released"}
          /\ phase' = [phase EXCEPT ![s] = "ended"]
    /\ RunnerFrame

RunnerNext ==
    \/ RunnerBegin
    \/ FirstAccess
    \/ LastAccess
    \/ RunnerEnd

RunnerSpec == RunnerInit /\ [][RunnerNext]_vars

(***************************************************************************)
(* A gate-blocking body beside the launch it started without awaiting:     *)
(* launchApp's interval callback runs only while the body is in a sleep or *)
(* at `await launchPromise`; the execSync of handleGatekeeperDialog holds  *)
(* the event loop for as long as the script runs.                          *)
(***************************************************************************)
BodyKinds == {"gateCli", "gateGk"}

\* launchApp(installedAppPath, [], 10000) / (..., 15000)
BodyLaunchTimeout(kind) == IF kind = "gateCli" THEN 10000 ELSE 15000

\* await macOS.sleep(2000) / sleep(3000) before the dialog handling
SleepBefore(kind) == IF kind = "gateCli" THEN 2000 ELSE 3000

\* await macOS.sleep(2000) after it: only in installer_cli.spec.ts
SleepAfter == 2000

\* the body's position after handleGatekeeperDialog has returned
AfterDialog(kind) == IF kind = "gateCli" THEN "sleep2" ELSE "await"

AwaitInit ==
    /\ LedgerInit /\ DriverIdle /\ RunIdle /\ GateIdle /\ ScenarioIdle /\ RunnerIdle
    /\ silent = NoSilent /\ killCall = NoKill /\ scTemp = NoTemp
    /\ \E kind \in BodyKinds :
          /\ launchTimeout = BodyLaunchTimeout(kind)
          /\ body = [kind |-> kind, pc |-> "sleep1", until |-> SleepBefore(kind),
                     nextPoll |-> PollPeriod, unhandled |-> FALSE]
    /\ launchClock = 0
    /\ launcher \in {"running", "failed"}
    /\ launcherSignalled = FALSE
    /\ appRunning = FALSE
    /\ appEverRan = FALSE
    /\ checkInterval = TRUE
    /\ launchResult = [kind |-> "pending", at |-> 0 - 1]

AwaitFrame == UNCHANGED <<launcher, launcherSignalled, appRunning, appEverRan,
                          silent, killCall, scTemp>>
              /\ LaunchRest

\* a handler is attached to launchPromise
Awaiting(pos) == pos \in {"await", "done"}

\* The interval callback runs: when it is due, or, when the event loop was
\* held past that, as soon as the body yields.  A timeout rejection made
\* while the body has not reached `await launchPromise` has no handler.
BodyPoll ==
    /\ checkInterval /\ launcher # "failed"
    /\ body.pc \in {"sleep1", "sleep2", "await"}
    /\ body.pc = "await" \/ body.nextPoll <= body.until
    /\ LET t == IF body.nextPoll > launchClock THEN body.nextPoll ELSE launchClock
           r == CheckInterval(t, launchTimeout, launcher, appRunning, launchResult)
       IN /\ launchClock' = t
          /\ checkInterval' = r.armed
          /\ launchResult' = r.result
          /\ body' = [body EXCEPT !.nextPoll = t + PollPeriod,
                                  !.unhandled = @ \/ (r.result.kind = "timeout"
                                                       /\ ~Awaiting(body.pc))]
    /\ AwaitFrame

\* The timer of macOS.sleep fires; takeScreenshot follows the first sleep.
SleepEnds ==
    /\ body.pc \in {"sleep1", "sleep2"}
    /\ ~checkInterval \/ launcher = "failed" \/ body.nextPoll > body.until
    /\ launchClock' = IF body.until > launchClock THEN body.until ELSE launchClock
    /\ body' = [body EXCEPT !.pc = IF body.pc = "sleep1" THEN "dialog" ELSE "await"]
    /\ UNCHANGED <<checkInterval, launchResult>>
    /\ AwaitFrame

\* await macOS.handleGatekeeperDialog('open'): execSync returns when the
\* script ends; no callback runs meanwhile.
BlockingDialog ==
    /\ body.pc = "dialog"
    /\ \E agentFrom \in ArrivalTimes :
       \E buttonFrom \in {b \in ArrivalTimes : b >= agentFrom} :
          LET held == DialogLoop(0, agentFrom, buttonFrom).at
          IN /\ launchClock' = launchClock + held
             /\ body' = [body EXCEPT !.pc = AfterDialog(body.kind),
                                     !.until = launchClock + held + SleepAfter]
    /\ UNCHANGED <<checkInterval, launchResult>>
    /\ AwaitFrame

\* `await launchPromise` gets the settled promise: the value, or the
\* rejection in the body's catch block.
LaunchAwaited ==
    /\ body.pc = "await"
    /\ launchResult.kind # "pending"
    /\ body' = [body EXCEPT !.pc = "done"]
    /\ UNCHANGED <<launchClock, checkInterval, launchResult>>
    /\ AwaitFrame

AwaitNext ==
    \/ BodyPoll
    \/ SleepEnds
    \/ BlockingDialog
    \/ LaunchAwaited
    \/ LaunchError
    \/ AppAppears
    \/ AppExits
    \/ LauncherExits

AwaitSpec == AwaitInit /\ [][AwaitNext]_vars

(***************************************************************************)
(* Properties of the resource tracking and of cleanup()                    *)
(***************************************************************************)
ReleasedOf(kind) == {released[i].id : i \in {k \in 1..Len(released) : released[k].kind = kind}}

\* a was acquired, for the last time, before b was acquired for the first time
AcquiredBefore(a, b) ==
    /\ a # b
    /\ \E i \in 1..Len(acquired) :
          /\ acquired[i] = b
          /\ \A k \in 1..(i-1) : acquired[k] # b
          /\ \A k \in i..Len(acquired) : acquired[k] # a
          /\ \E k \in 1..(i-1) : acquired[k] = a

\* C2: once the scenario has ended (body, then the afterEach cleanup), no
\* mount point that mountDMG returned to the scenario is still attached.
C2_NoMountActiveAtEnd ==
    pc = "done" => obtained \cap activeMounts = {}

\* C3: after cleanup() has returned, the three tracked lists are empty.
C3_ListsEmptyAfterCleanup ==
    (pc = "done" /\ ~cleanupRaised) =>
        /\ spawnedProcesses = << >>
        /\ mountedDMGs = << >>
        /\ tempDirectories = << >>

\* C3 witness: cleanup() returned after a detach and a removal both failed
\* (the mount is still attached, the directory still there).
C3_Witness ==
    /\ pc = "done" /\ ~cleanupRaised
    /\ ReleasedOf("mount") \cap activeMounts # {}
    /\ ReleasedOf("dir") \cap existingDirs # {}

\* C4: after cleanup() has returned, no process the scenario spawned
\* (through launchApp or through its driver) is still running.
C4_NoSpawnedProcessAlive ==
    pc = "done" => (launched \cup driven) \cap alive = {}

\* C5: cleanup() never ends with an exception.
C5_CleanupNeverRaises == ~cleanupRaised

\* C5 witness: cleanup() ran, signalled a process that survived, and both
\* detaches of a tracked mount failed.
C5_Witness ==
    /\ pc = "done"
    /\ ReleasedOf("mount") \cap activeMounts # {}
    /\ ReleasedOf("process") \cap alive # {}

KindRank(kind) == CASE kind = "process" -> 1 [] kind = "mount" -> 2 [] OTHER -> 3

C7_CleanupAfterBody ==
    /\ pc = "done" => cleanupCalls = 1
    /\ (bodyFailed /\ pc # "done") => (pc = "afterEach" /\ cleanupCalls = 0)

\* C7 witness: the body threw after acquiring resources and cleanup()
\* released them.
C7_Witness ==
    /\ pc = "done" /\ bodyFailed
    /\ cleanupCalls = 1
    /\ Len(released) > 0

\* C17: mountDMG on a missing path throws without running hdiutil attach,
\* and after any mountDMG call that threw, mountedDMGs is what it was
\* before the call.
C17_FailedMountLeavesList ==
    lastCall.op = "mountDMG" =>
        /\ (~lastCall.pathFound => (lastCall.threw /\ ~lastCall.attach))
        /\ ((lastCall.threw /\ pc = "afterEach") => mountedDMGs = lastCall.before)

\* a mountDMG on a missing path has thrown while a mount was tracked
C17_Witness ==
    /\ lastCall.op = "mountDMG" /\ ~lastCall.pathFound /\ lastCall.threw
    /\ pc = "afterEach"
    /\ Len(mountedDMGs) > 0

\* C18: unmountDMG makes one clean detach, one forced detach only after
\* the clean one failed, and never throws to its caller.
C18_UnmountNonFatal ==
    lastCall.op = "unmountDMG" =>
        /\ lastCall.detaches \in {<<"detach">>, <<"detach", "detach -force">>}
        /\ ~lastCall.threw

\* C19: mountedDMGs never holds two entries for the same image.
C19_OneHandlePerImage ==
    \A i, j \in 1..Len(mountedDMGs) :
        mountedDMGs[i] = mountedDMGs[j] => i = j

\* C11: a run's promise takes one of the three outcomes and, once settled,
\* no later 'close', 'error' or timer callback changes it.
C11_SettledOnce ==
    [][/\ result'.kind \in {"pending", "Completed", "TimedOut", "Errored"}
       /\ (result.kind # "pending" => result' = result)]_vars

\* the conflict run timed out and the 'close' event of the killed child
\* has been handled afterwards
C11_Witness ==
    /\ runDriver = "conflict"
    /\ result.kind = "TimedOut"
    /\ closeSeen /\ timerFired

C15_HungOnlyAfterQuietGrace ==
    (runDriver = "hang" /\ result.kind # "pending" /\ result.hung) =>
        /\ promptAt >= 0
        /\ result.at - promptAt > GracePeriod
        /\ lastOutputAt <= promptAt
        /\ (exitedAt < 0 \/ exitedAt >= result.at)

\* C16: a result with exit code 0 comes from a child that exited with
\* status 0.
C16_ZeroOnlyForExitZero ==
    result.exitCode = <<0>> =>
        (child = "exited" /\ ~exitStatus.signalled /\ exitStatus.code = <<0>>)

\* C12: a launchApp call whose application never appears ends as a
\* timeout, no earlier than the timeout and no later than one poll period
\* after it.
C12_TimeoutBoundary ==
    /\ launchResult.kind = "timeout" =>
          /\ launchResult.at >= launchTimeout
          /\ launchResult.at <= launchTimeout + PollPeriod
    /\ (launchResult.kind = "pending" /\ launcher # "failed") =>
          launchClock <= launchTimeout + PollPeriod
    /\ (launchResult.kind \notin {"pending", "error"} /\ ~appEverRan) =>
          launchResult.kind = "timeout"

\* C13: when launchApp ends as a timeout, a termination signal has been
\* sent to the launcher it spawned.
C13_SignalOnTimeout ==
    launchResult.kind = "timeout" => launcherSignalled

LogAt(e) == {i \in 1..Len(scLog) : scLog[i] = e}

\* C21: in the gate-blocking scenarios handleGatekeeperDialog is called
\* only after a checkGatekeeperStatus that returned blocked, itself made
\* after the setQuarantineAttribute(path, true) call.
C21_DialogOnlyAfterBlocked ==
    \A d \in LogAt("dialog") :
        \E c \in LogAt("blocked") :
            /\ c < d
            /\ \E q \in LogAt("quarantine") : q < c

\* the dialog automation has run in a gate-blocking scenario
C21_Witness ==
    /\ scKind \in {"gateCli", "gateGk"}
    /\ scDialog.called
    /\ LogAt("dialog") # {}

\* C22: a dialog whose button shows up within the budget after the call
\* started gets the button clicked.
C22_DialogWithinBudgetHandled ==
    (scDialog.called /\ scDialog.buttonFrom < DialogBudget /\ ~scDialog.warned) =>
        scDialog.clicked

\* C23: setQuarantineAttribute and handleGatekeeperDialog never throw to
\* the body; after a failing call the body is at its next step.
C23_GateOperationsNeverRaise ==
    /\ ~scRaised
    /\ (scDialog.called /\ scDialog.warned /\ scKind = "gateGk") =>
          scPc \in {"await", "remove", "recheck", "ended", "teardown", "finished"}

\* the dialog script failed or ran out of budget and the body went on to
\* await the launch
C23_Witness ==
    /\ scDialog.called /\ scDialog.warned
    /\ scPc = "await"

\* C24: no two scenarios are at the same time between their first and
\* last access to the install location.
C24_OneScenarioAtInstallPath ==
    phase # << >> => Cardinality(Installing) <= 1

\* C25: once the conflict scenario and the global teardown have run, the
\* mock bundle is no longer at the install location.
C25_MockGoneAfterTeardown ==
    (scKind = "conflict" /\ scPc = "finished") => ~scMock

\* C26: a network-disabled run whose installer exited nonzero with empty
\* stdout and stderr fails the scenario.
C26_SilentFailureFails ==
    (/\ scKind = "network" /\ scPc \in {"restore", "ended", "teardown", "finished"}
     /\ scRun.code = <<1>> /\ ~scRun.timedOut
     /\ scRun.stdout = << >> /\ scRun.stderr = << >>) => scFailed

\* C27: checkGatekeeperStatus reports blocked = false exactly when spctl
\* exits 0; on a deny the reason is 'unsigned' when the message holds
\* 'rejected' and 'unknown' otherwise; the call never throws.
C27_StatusFollowsAssessment ==
    lastCheck.called =>
        /\ lastCheck.blocked = ~lastCheck.accepted
        /\ (lastCheck.blocked =>
               lastCheck.reason = IF lastCheck.rejectedWord THEN "unsigned" ELSE "unknown")
        /\ ~lastCheck.raised

\* a denied assessment whose message lacks the keyword
C27_Witness ==
    /\ lastCheck.called /\ ~lastCheck.accepted /\ ~lastCheck.rejectedWord
    /\ lastCheck.blocked /\ lastCheck.reason = "unknown"

\* C28: cleanup() attempts a detach for every mount point that is in
\* mountedDMGs when it is called.
C28_EveryTrackedMountReleased ==
    pc = "done" => Range(trackedAtCleanup) \subseteq ReleasedOf("mount")

\* C29: every mount point in mountedDMGs is an active mount.
C29_TrackedMountsAreActive ==
    \A i \in 1..Len(mountedDMGs) : mountedDMGs[i] \in activeMounts

\* C30: until cleanup() has run, every volume mountDMG attached is in
\* mountedDMGs.
C30_AttachedIsTracked ==
    pc # "done" => activeMounts \subseteq Range(mountedDMGs)

\* C10: until cleanup() runs, every process the scenario spawned is in
\* spawnedProcesses from the moment it was spawned.
C10_SpawnedAreTracked ==
    cleanupCalls = 0 => (launched \cup driven) \subseteq Range(spawnedProcesses)

(***************************************************************************)
(* Properties of the interactive drivers                                   *)
(***************************************************************************)
WritesFor(rule) == SelectSeq(stdin, LAMBDA w : w.rule = rule)

\* C32: launchApp resolves only if a process of the application itself
\* has been running; the launcher alone does not make it resolve.
C32_ResolvesOnlyForApp ==
    launchResult.kind = "resolved" => appEverRan

\* C33: in the silent-failure body, a launch that ended as a timeout with
\* no matching process visible afterwards sets caughtSilentFailure.
C33_TimeoutWithoutProcessFlagged ==
    (silent.done /\ launchResult.kind = "timeout" /\ ~silent.visible) =>
        silent.caught

\* C36: killProcess never raises; KILL is sent only after the requested
\* signal was delivered and the probe found the process alive; when the
\* requested signal cannot be delivered nothing else is sent and a
\* warning is logged.
C36_KillEscalatesInOrder ==
    killCall.called =>
        /\ ~killCall.raised
        /\ "KILL" \in Range(killCall.signals) =>
              /\ killCall.signals = <<"TERM", "0", "KILL">>
              /\ killCall.delivered /\ killCall.stillAlive
        /\ ~killCall.delivered =>
              /\ killCall.signals = <<"TERM">>
              /\ killCall.warned

\* the requested signal was delivered, the process survived and KILL
\* followed
C36_Witness ==
    /\ killCall.called /\ killCall.delivered /\ killCall.stillAlive
    /\ killCall.signals = <<"TERM", "0", "KILL">>

\* C34: in the network-disabled body, once setNetworkConnectivity(false)
\* has been called, setNetworkConnectivity(true) is called after it before
\* the body ends.
C34_ConnectivityRestoreAttempted ==
    (scKind = "network" /\ scPc \in {"ended", "teardown", "finished"}) =>
        \A d \in LogAt("netDown") : \E u \in LogAt("netUp") : d < u

\* C37: a temp directory made by createTempDirectory that still exists
\* when the scenarios are over is gone once the global teardown has run.
C37_TeardownSweepsTempDirectories ==
    scPc = "finished" => ~scTemp.exists

\* C35: in the gate-blocking body of installer_cli.spec.ts the launch
\* timeout is never delivered before the body is at `await launchPromise`.
C35_TimeoutOnlyWhileAwaited ==
    body.kind = "gateCli" => ~body.unhandled

\* C31: when the email prompt and the install-confirmation prompt arrive
\* in one chunk, a driver with both rules writes both responses for that
\* chunk, the email response first and the confirmation second.
C31_BothPromptsAnswered ==
    [][LET chunk == SubSeq(pending, 1, Len(pending) - Len(pending'))
       IN (/\ driver \in Drivers \ {"invalidEmail"}
           /\ Len(pending') < Len(pending)
           /\ Includes(chunk, EmailPrompt)
           /\ Includes(chunk, ReadyPrompt))
          => /\ Len(stdin') = Len(stdin) + 2
             /\ stdin'[Len(stdin) + 1].rule = "email"
             /\ stdin'[Len(stdin) + 2].rule = "confirm"]_vars

\* C1: over one run, the response of a prompt rule is written at most once.
C1_ResponseAtMostOnce ==
    \A rule \in {"email", "confirm", "replace"} : Len(WritesFor(rule)) <= 1

\* C8: whenever the accumulated output holds the email prompt, whole or
\* cut by chunk boundaries, the email response has been written.
C8_PromptMatchedOnBuffer ==
    Includes(stdout, EmailPrompt) => Len(WritesFor("email")) >= 1

\* C9: every response written to the installer's stdin ends with a line
\* feed.
C9_ResponseEndsWithNewline ==
    \A i \in 1..Len(stdin) : stdin[i].data[Len(stdin[i].data)] = "LF"

====
